---- MODULE Spec2Model ----
(***************************************************************************)
(* Model of the orchestration core of the Babbar MCP server (src/index.ts):*)
(* the bounded executor pLimit, the caching / rate-limit aware client      *)
(* makeApiCall, the batch loops, the duplication percentage normalizer and *)
(* the backlink opportunity pipeline.                                      *)
(***************************************************************************)
EXTENDS Integers, Sequences, FiniteSets, TLC

\* ------------------------------------------------------------------------
\* Bounds of the model
\* ------------------------------------------------------------------------
MaxUnits == 3
MaxConcurrency == 2
MaxStarted == 2
MaxTicks == 1
MaxItems == 2
MaxBatchTicks == 2
MaxFine == 60
MaxCoarse == 44
MaxSfHosts == 2
MaxFields == 2
MaxBuckets == 2
MaxLen == 100
MaxRows == 2

VARIABLES
  mode,          \* which component the behaviour exercises
  concurrency,   \* pLimit: the configured maximum
  active,        \* pLimit: let active
  queue,         \* pLimit: resolvers of the waiting run() calls, FIFO
  microtasks,    \* resumptions of woken run() calls, in the order scheduled
  ust,           \* per unit: position of its run() call
  seqno,         \* per unit: rank of its submission (0 = not submitted)
  submitted,     \* number of run() calls made so far
  waited,        \* units whose run() call went through the wait queue
  clock,         \* Date.now(), in seconds
  ticks,         \* number of clock advances so far
  store,         \* node-cache: cacheKey -> stored envelope and expiry time
  rateLimitRemaining, \* let rateLimitRemaining
  call,          \* per makeApiCall invocation: its position and locals
  started,       \* number of makeApiCall invocations so far
  last,          \* the makeApiCall invocation the latest step completed, if any
  okAt,          \* per endpoint and data: time a cacheable call with them last succeeded
  tool,          \* batch: the batch tool that runs
  btype,         \* batch: args.type of babbar_batch_overview
  items,         \* batch: args.items / args.pairs
  idx,           \* batch: position of the for loop in items
  bpc,           \* batch: position of the loop body
  pauseAt,       \* batch: time the self-throttle pause began
  results,       \* batch: const results
  nv,            \* normPct: the raw value v
  n1,            \* normPct(v)
  n2,            \* normPct(normPct(v))
  npc,           \* normPct: how many times it has been applied
  ppc,           \* pipeline: the await the handler is suspended on
  params,        \* pipeline: the numeric arguments of the call
  userContent,   \* pipeline: args.content || args.q
  initialTargets, \* pipeline: args.targets
  sfContent,     \* pipeline: const sfContent
  targets,       \* pipeline: let targets
  tIdx,          \* pipeline: position of the stage 5 loop in targets
  ourRefHosts,   \* pipeline: const ourRefHosts
  sfHosts,       \* pipeline: const sfHosts
  hIdx,          \* pipeline: position of the stage 4 loop in sfHosts
  topSeen,       \* pipeline: per host, the latest answer to its top pages call
  sources,       \* pipeline: let sources
  uniqueSources, \* pipeline: const uniqueSources
  preselected,   \* pipeline: const preselected of the current target
  ops,           \* pipeline: const ops
  fiFailed,      \* pipeline: the (source, target) pairs whose /url/fi call threw
  opportunities, \* pipeline: const opportunities, the returned list
  exResp,        \* safeExtractData: the argument response
  exType,        \* safeExtractData: the argument dataType
  exOut,         \* safeExtractData: the value returned
  expc,          \* safeExtractData: whether it has returned
  dupResp,       \* babbar_host_duplicate: const resp
  threshold,     \* babbar_host_duplicate: const threshold
  includeBelow,  \* babbar_host_duplicate: const includeBelow
  annotated,     \* babbar_host_duplicate: const annotated
  resultBuckets, \* babbar_host_duplicate: const resultBuckets
  dpc,           \* babbar_host_duplicate: whether it has returned
  baseKeywords,  \* calculateCompetitorRelevance: the argument baseKeywords
  competitorKeywords, \* calculateCompetitorRelevance: the argument competitorKeywords
  similarityScore, \* calculateCompetitorRelevance: the argument similarityScore
  relevance,     \* calculateCompetitorRelevance: the value returned
  rpc,           \* calculateCompetitorRelevance: whether it has returned
  baseRows,      \* findKeywordOpportunities: the argument baseKeywords
  competitorRows, \* findKeywordOpportunities: the argument competitorKeywords
  keywordOpps,   \* findKeywordOpportunities: the value returned
  kpc,           \* findKeywordOpportunities: whether it has returned
  baseKwList,    \* competitive analysis: the keyword rows of the base host
  cKwLists,      \* competitive analysis: the keyword rows of each relevant competitor
  competitorOpps, \* competitive analysis: keywordOpportunities of each relevant competitor
  topOpportunities, \* competitive analysis: const topOpportunities
  tpc,           \* competitive analysis: whether stage 4 has run
  baseKw,        \* target selection: const baseKw
  internalPages, \* target selection: const internalPages
  maxTargets,    \* target selection: args.maxTargets
  autoTargets,   \* target selection: let targets
  spc            \* target selection: whether stage 1 has run

batchVars == <<tool, btype, items, idx, bpc, pauseAt, results>>

normVars == <<nv, n1, n2, npc>>

pipeVars ==
  <<ppc, params, userContent, initialTargets, sfContent, targets, tIdx, ourRefHosts,
    sfHosts, hIdx, topSeen, sources, uniqueSources, preselected, ops, fiFailed,
    opportunities>>

execVars == <<concurrency, active, queue, microtasks, ust, seqno, submitted, waited>>

apiVars == <<clock, ticks, store, rateLimitRemaining, call, started, last, okAt>>

extractVars == <<exResp, exType, exOut, expc>>

\* the variables of the helpers that compute a value from their arguments
dupVars == <<dupResp, threshold, includeBelow, annotated, resultBuckets, dpc>>

relVars == <<baseKeywords, competitorKeywords, similarityScore, relevance, rpc>>

kwVars == <<baseRows, competitorRows, keywordOpps, kpc>>

topVars == <<baseKwList, cKwLists, competitorOpps, topOpportunities, tpc>>

selVars == <<baseKw, internalPages, maxTargets, autoTargets, spc>>

pureVars == <<extractVars, dupVars, relVars, kwVars, topVars, selVars>>

vars == <<mode, execVars, apiVars, batchVars, normVars, pipeVars, pureVars>>

Units == 1..MaxUnits

UnitStates == {"idle", "queued", "woken", "running", "settled", "done"}

ExecIdle ==
  /\ concurrency = 1
  /\ active = 0
  /\ queue = <<>>
  /\ microtasks = <<>>
  /\ ust = [u \in Units |-> "idle"]
  /\ seqno = [u \in Units |-> 0]
  /\ submitted = 0
  /\ waited = {}

BatchIdle ==
  /\ tool = "babbar_batch_overview"
  /\ btype = "host"
  /\ items = <<>>
  /\ idx = 1
  /\ bpc = "next"
  /\ pauseAt = 0
  /\ results = <<>>

NormIdle ==
  /\ nv = 0
  /\ n1 = 0
  /\ n2 = 0
  /\ npc = "raw"

Hosts == {"h1", "h2"}

NotAsked == [ok |-> FALSE, urls |-> <<>>]

NoParams ==
  [topPagesPerHost |-> 0, sourcesPoolCap |-> 0, maxCandidatesPerTarget |-> 0,
   fiThreshold |-> 0, concurrencyFi |-> 1, topLimit |-> 0]

PipeIdle ==
  /\ ppc = "off"
  /\ params = NoParams
  /\ userContent = ""
  /\ initialTargets = <<>>
  /\ sfContent = ""
  /\ targets = <<>>
  /\ tIdx = 1
  /\ ourRefHosts = {}
  /\ sfHosts = <<>>
  /\ hIdx = 1
  /\ topSeen = [h \in Hosts |-> NotAsked]
  /\ sources = <<>>
  /\ uniqueSources = <<>>
  /\ preselected = <<>>
  /\ ops = <<>>
  /\ fiFailed = {}
  /\ opportunities = <<>>

\* a value that is not an array: undefined, null, a number, a string, an object
NotArr == [arr |-> FALSE, v |-> <<>>]

FieldNames ==
  {"entries", "keywords", "hosts", "similar", "pages", "urls", "backlinks", "links",
   "results", "buckets"}

NoFields == [f \in FieldNames |-> NotArr]

\* no response at all: null or undefined
NoResp == [kind |-> "null", items |-> <<>>, fields |-> NoFields]

ExtractIdle ==
  /\ exResp = NoResp
  /\ exType = "undefined"
  /\ exOut = <<>>
  /\ expc = "off"

DupIdle ==
  /\ dupResp = NoResp
  /\ threshold = 0
  /\ includeBelow = FALSE
  /\ annotated = <<>>
  /\ resultBuckets = <<>>
  /\ dpc = "off"

\* a number as a fraction num / den
Frac(n, d) == [num |-> n, den |-> d]

NoRelevance ==
  [commonCount |-> 0, commonRatio |-> Frac(0, 1), relevanceScore |-> Frac(0, 1),
   isRelevant |-> FALSE]

RelIdle ==
  /\ baseKeywords = {}
  /\ competitorKeywords = <<>>
  /\ similarityScore = 0
  /\ relevance = NoRelevance
  /\ rpc = "off"

KwIdle ==
  /\ baseRows = <<>>
  /\ competitorRows = <<>>
  /\ keywordOpps = <<>>
  /\ kpc = "off"

TopIdle ==
  /\ baseKwList = <<>>
  /\ cKwLists = <<>>
  /\ competitorOpps = <<>>
  /\ topOpportunities = <<>>
  /\ tpc = "off"

SelIdle ==
  /\ baseKw = <<>>
  /\ internalPages = <<>>
  /\ maxTargets = 0
  /\ autoTargets = <<>>
  /\ spc = "off"

PureIdle ==
  /\ ExtractIdle
  /\ DupIdle
  /\ RelIdle
  /\ KwIdle
  /\ TopIdle
  /\ SelIdle

\* ------------------------------------------------------------------------
\* Remote data client: cache, response interceptor, makeApiCall
\* (src/index.ts 180-322)
\* ------------------------------------------------------------------------
\* const cache = new NodeCache({ stdTTL: 864000 })
stdTTL == 864000

\* setTimeout(resolve, 60000), in seconds
RetryDelay == 60

\* the value null of rateLimitRemaining
Null == -1

\* the makeApiCall invocations that may be in progress at the same time
Calls == {1, 2}

Methods == {"POST", "GET"}

Endpoints == {"/url/fi", "/host/overview/main", "/domain/overview/main", "/url/overview/main"}

\* the data argument: undefined, or an object built from the item "a" or "b"
ParamVals == {"undef", "a", "b"}

\* the (method, endpoint, data, useCache) arguments the callers are modelled to pass
CallArgs ==
  {<<"POST", "/url/fi", "undef", TRUE>>, <<"POST", "/url/fi", "a", TRUE>>,
   <<"GET", "/url/fi", "a", TRUE>>, <<"POST", "/url/fi", "a", FALSE>>}

\* the payload the provider answers with
Payloads == {"d1"}

\* HTTP status of an answer; 0 stands for a request that got no response
Statuses == {200, 400, 401, 404, 429, 0}

\* x-ratelimit-remaining of an answer; Null when the header is absent
HeaderVals == {Null, 1}

\* the answers of the provider: status, x-ratelimit-remaining and payload (the
\* payload of a 200 answer only is read); of the failed answers, the 429 one
\* comes with and without the header
Answers ==
  {<<200, h, d>> : h \in HeaderVals, d \in Payloads}
    \cup {<<st, Null, "d1">> : st \in Statuses \ {200}}
    \cup {<<429, h, "d1">> : h \in HeaderVals \ {Null}}

\* the steps by which the clock advances
TickSteps == {RetryDelay, stdTTL, stdTTL + 1}

\* JSON.stringify(data || {})
Stringify(p) == IF p = "undef" THEN "{}" ELSE "{\"host\":\"" \o p \o "\"}"

\* const cacheKey = `${method}:${endpoint}:${JSON.stringify(data || {})}`
CacheKey(m, e, p) == <<m, e, Stringify(p)>>

\* only cacheable calls reach the cache, and their method is POST
CacheKeys == {CacheKey("POST", e, p) : e \in Endpoints, p \in ParamVals}

NoEnv == [endpoint |-> "", timestamp |-> -1, rateLimitRemaining |-> Null, data |-> ""]

NoEntry == [v |-> NoEnv, t |-> -1]

\* a makeApiCall invocation that is not running
IdleCall ==
  [pc |-> "idle", method |-> "POST", endpoint |-> "/url/fi",
   params |-> "undef", useCache |-> TRUE, reqs |-> 0, lastStatus |-> 0,
   respAt |-> 0]

\* what the makeApiCall invocation that completed in the latest step returned
\* or threw; NoLast when the latest step completed none
NoLast ==
  [method |-> "POST", endpoint |-> "/url/fi", params |-> "undef",
   useCache |-> TRUE, reqs |-> 0, lastStatus |-> 0, kind |-> "none",
   env |-> NoEnv, message |-> ""]

ApiIdle ==
  /\ clock = 0
  /\ ticks = 0
  /\ store = [k \in CacheKeys |-> NoEntry]
  /\ rateLimitRemaining = Null
  /\ call = [c \in Calls |-> IdleCall]
  /\ started = 0
  /\ last = NoLast
  /\ okAt = [s \in Endpoints \X ParamVals |-> -1]

ExpiredEarly(entry, now) == entry.t <= now

ExpiredNever(entry, now) == FALSE

\* node-cache _check: an entry whose expiry time is before now is expired
Expired(entry, now) == entry.t < now

\* node-cache get(key): the stored value, or undefined (NoEnv) when the key is
\* absent or expired
CacheGet(k, now) ==
  IF store[k] = NoEntry \/ Expired(store[k], now) THEN NoEnv ELSE store[k].v

\* node-cache set(key, value): the entry expires stdTTL after now
CacheSet(k, value, now) == [store EXCEPT ![k] = [v |-> value, t |-> now + stdTTL]]

\* node-cache deletes an expired entry when get() meets it
CacheAfterGet(k, now) ==
  IF store[k] # NoEntry /\ Expired(store[k], now)
    THEN [store EXCEPT ![k] = NoEntry] ELSE store

\* formatResponse(data, endpoint)
formatResponse(data, endpoint, rlr) ==
  [endpoint |-> endpoint, timestamp |-> clock, rateLimitRemaining |-> rlr, data |-> data]

\* the message of the Error makeApiCall throws for a failed request
ErrorMessageGeneric(status) ==
  CASE status = 429 -> "Rate limit exceeded"
    [] status = 400 -> "Bad request"
    [] status = 404 -> "Endpoint not found"
    [] OTHER -> "API error"

\* the message of the Error the catch block throws
ErrorMessage(status) ==
  CASE status = 401 -> "Invalid API key"
    [] status = 429 -> "Rate limit exceeded"
    [] status = 400 -> "Bad request"
    [] status = 404 -> "Endpoint not found"
    [] OTHER -> "API error"

CacheableAnyFlag(m, uc) == m = "POST"

\* if (useCache && method === "POST")
Cacheable(m, uc) == uc /\ m = "POST"

\* the record of a completed invocation
Completed(cc, kind, env, message) ==
  [method |-> cc.method, endpoint |-> cc.endpoint, params |-> cc.params,
   useCache |-> cc.useCache, reqs |-> cc.reqs, lastStatus |-> cc.lastStatus,
   kind |-> kind, env |-> env, message |-> message]

\* makeApiCall(endpoint, method, data, useCache) up to its first suspension:
\* a cache hit returns at once, otherwise the request is issued
StartCall(c, m, e, p, uc) ==
  /\ call[c].pc = "idle"
  /\ \A b \in Calls : b < c => call[b].pc # "idle"
  /\ started' = started + 1
  /\ LET k == CacheKey(m, e, p)
         cachedData == IF Cacheable(m, uc) THEN CacheGet(k, clock) ELSE NoEnv
         base == [IdleCall EXCEPT !.method = m, !.endpoint = e, !.params = p,
                                  !.useCache = uc]
     IN /\ store' = IF Cacheable(m, uc) THEN CacheAfterGet(k, clock) ELSE store
        /\ IF cachedData # NoEnv
             THEN /\ last' = Completed(base, "hit", cachedData, "")
                  /\ call' = call
             ELSE /\ call' = [call EXCEPT ![c] =
                       [base EXCEPT !.pc = "inflight", !.reqs = 1]]
                  /\ last' = NoLast
  /\ UNCHANGED <<clock, ticks, rateLimitRemaining, okAt>>

\* the provider answers the request of call c; the response interceptor and
\* the rest of makeApiCall run
Respond(c, status, hdr, d) ==
  /\ call[c].pc = "inflight"
  /\ LET cc == [call[c] EXCEPT !.lastStatus = status, !.respAt = clock]
         rlr == IF status = 200 /\ hdr # Null THEN hdr ELSE rateLimitRemaining
         formattedData == formatResponse(d, cc.endpoint, rlr)
         k == CacheKey(cc.method, cc.endpoint, cc.params)
     IN /\ rateLimitRemaining' = rlr
        /\ CASE status = 200 ->
                  /\ store' = IF Cacheable(cc.method, cc.useCache)
                                THEN CacheSet(k, formattedData, clock) ELSE store
                  /\ okAt' = IF Cacheable(cc.method, cc.useCache)
                               THEN [okAt EXCEPT ![<<cc.endpoint, cc.params>>] = clock]
                               ELSE okAt
                  /\ last' = Completed(cc, "ok", formattedData, "")
                  /\ call' = [call EXCEPT ![c] = IdleCall]
             [] status = 429 ->
                  /\ call' = [call EXCEPT ![c] =
                       [cc EXCEPT !.pc = "backoff"]]
                  /\ last' = NoLast
                  /\ UNCHANGED <<store, okAt>>
             [] OTHER ->
                  /\ last' = Completed(cc, "error", NoEnv, ErrorMessage(status))
                  /\ call' = [call EXCEPT ![c] = IdleCall]
                  /\ UNCHANGED <<store, okAt>>
  /\ UNCHANGED <<clock, ticks, started>>

RetryNoWait(c) ==
  /\ call[c].pc = "backoff"
  /\ call' = [call EXCEPT ![c].pc = "inflight", ![c].reqs = @ + 1,
                          ![c].lastStatus = 0, ![c].respAt = 0]
  /\ last' = NoLast
  /\ UNCHANGED <<clock, ticks, store, rateLimitRemaining, started, okAt>>

\* the 60 second timer of the interceptor fires: apiClient.request(error.config)
Retry(c) ==
  /\ call[c].pc = "backoff"
  /\ clock >= call[c].respAt + RetryDelay
  /\ call' = [call EXCEPT ![c].pc = "inflight", ![c].reqs = @ + 1,
                          ![c].lastStatus = 0, ![c].respAt = 0]
  /\ last' = NoLast
  /\ UNCHANGED <<clock, ticks, store, rateLimitRemaining, started, okAt>>

\* time passes
Tick(d) ==
  /\ ticks' = ticks + 1
  /\ clock' = clock + d
  /\ last' = NoLast
  /\ UNCHANGED <<store, rateLimitRemaining, call, started, okAt>>

\* node-cache's periodic _checkData: expired entries are deleted
CheckData ==
  /\ \E k \in CacheKeys : store[k] # NoEntry /\ Expired(store[k], clock)
  /\ store' = [k \in CacheKeys |->
                 IF store[k] # NoEntry /\ Expired(store[k], clock)
                   THEN NoEntry ELSE store[k]]
  /\ last' = NoLast
  /\ UNCHANGED <<clock, ticks, rateLimitRemaining, call, started, okAt>>

\* the variables of the other components, which the client never touches
ApiFrame == UNCHANGED <<mode, execVars, batchVars, normVars, pipeVars, pureVars>>

\* some caller invokes makeApiCall
CallerStarts(c, a) ==
  /\ started < MaxStarted
  /\ StartCall(c, a[1], a[2], a[3], a[4])
  /\ ApiFrame

\* the provider answers an outstanding request
ProviderAnswers(c, r) == Respond(c, r[1], r[2], r[3]) /\ ApiFrame

\* the timer of a rate-limited request fires
TimerFires(c) == Retry(c) /\ ApiFrame

TimePasses(d) ==
  /\ ticks < MaxTicks
  /\ Tick(d)
  /\ ApiFrame

\* node-cache's check period elapses
CacheSweep == CheckData /\ ApiFrame

InitApi ==
  /\ mode = "api"
  /\ ApiIdle
  /\ ExecIdle
  /\ BatchIdle
  /\ NormIdle
  /\ PipeIdle
  /\ PureIdle

NextApi ==
  \/ \E c \in Calls, a \in CallArgs : CallerStarts(c, a)
  \/ \E c \in Calls, r \in Answers : ProviderAnswers(c, r)
  \/ \E c \in Calls : TimerFires(c)
  \/ \E d \in TickSteps : TimePasses(d)
  \/ CacheSweep

SpecApi == InitApi /\ [][NextApi]_vars

\* the invocation started by this step is cacheable and carries data p
StartsCacheable(e, p) ==
  /\ started' = started + 1
  /\ \/ /\ last'.kind = "hit"
        /\ last'.endpoint = e /\ last'.params = p
        /\ Cacheable(last'.method, last'.useCache)
     \/ \E c \in Calls :
          /\ call[c].pc = "idle" /\ call'[c].pc = "inflight"
          /\ call'[c].endpoint = e /\ call'[c].params = p
          /\ Cacheable(call'[c].method, call'[c].useCache)

\* C2: a cacheable (POST, caching enabled) call made at most 10 days after a
\* call with the same method, endpoint and parameters completed successfully
\* returns the stored envelope and issues no network request.
C2_HitWithinTtl ==
  [][\A e \in Endpoints, p \in ParamVals :
       (StartsCacheable(e, p) /\ okAt[<<e, p>>] >= 0 /\ clock - okAt[<<e, p>>] <= stdTTL)
         => /\ last'.kind = "hit"
            /\ last'.reqs = 0
            /\ last'.env = store[CacheKey("POST", e, p)].v
            /\ last'.env.timestamp = okAt[<<e, p>>]
            /\ call' = call]_vars

\* a call served from the cache exactly 10 days after the envelope was stored
C2_Witness ==
  /\ last.kind = "hit"
  /\ last.reqs = 0
  /\ okAt[<<last.endpoint, last.params>>] >= 0
  /\ clock - okAt[<<last.endpoint, last.params>>] = stdTTL

\* C3: no envelope is served more than 864000 seconds after it was stored; a
\* cacheable call whose entry is older misses and issues a request, and a
\* successful cacheable call stores its envelope in place of the old entry.
C3_NeverServedAfterTtl ==
  [][/\ last'.kind = "hit" => clock' - last'.env.timestamp <= stdTTL
     /\ \A e \in Endpoints, p \in ParamVals :
          (/\ StartsCacheable(e, p)
           /\ store[CacheKey("POST", e, p)] # NoEntry
           /\ clock - store[CacheKey("POST", e, p)].v.timestamp > stdTTL)
            => /\ last'.kind # "hit"
               /\ \E c \in Calls : call[c].pc = "idle" /\ call'[c].pc = "inflight"
                                   /\ call'[c].reqs = 1
     /\ (last'.kind = "ok" /\ Cacheable(last'.method, last'.useCache))
          => /\ store'[CacheKey(last'.method, last'.endpoint, last'.params)].v = last'.env
             /\ last'.env.timestamp = clock']_vars

\* a cacheable call in flight for a signature whose envelope was stored more
\* than 10 days ago
C3_Witness ==
  \E c \in Calls :
    /\ call[c].pc = "inflight"
    /\ Cacheable(call[c].method, call[c].useCache)
    /\ okAt[<<call[c].endpoint, call[c].params>>] >= 0
    /\ clock - okAt[<<call[c].endpoint, call[c].params>>] > stdTTL

C15_UnauthorizedOneRequest ==
  [][\A c \in Calls :
       (/\ call[c].pc = "inflight"
        /\ \/ call'[c].lastStatus = 401
           \/ call'[c] # call[c] /\ last'.lastStatus = 401)
         => /\ last'.kind = "error"
            /\ last'.message = "Invalid API key"
            /\ last'.env = NoEnv
            /\ last'.reqs = 1
            /\ call'[c].pc = "idle"
            /\ store' = store]_vars

\* C15: a 401 answer ends the call at once with the error that names the
\* invalid API key: the request is not re-issued (the call has made one
\* request, plus one for every 429 answer it got before), nothing is written
\* to the cache and no envelope is returned.
C15_UnauthorizedNotRetried ==
  [][\A c \in Calls :
       (/\ call[c].pc = "inflight"
        /\ \/ call'[c].lastStatus = 401
           \/ call'[c] # call[c] /\ last'.lastStatus = 401)
         => /\ last'.kind = "error"
            /\ last'.message = "Invalid API key"
            /\ last'.env = NoEnv
            /\ last'.reqs = call[c].reqs
            /\ call'[c].pc = "idle"
            /\ \A b \in Calls : call'[b].reqs <= call[b].reqs
            /\ store' = store]_vars

\* a call that ended on a 401 answer to its re-issued request
C15_Witness == last.kind = "error" /\ last.lastStatus = 401 /\ last.reqs = 2

\* C16: an entry of the cache gets a new value only in the step that completes
\* a POST call with caching enabled on a successful answer, and only under the
\* key of that call; a call that ends in an error, uses another method or has
\* caching disabled gives no entry a new value.
C16_WriteOnlyOnCacheableSuccess ==
  [][/\ \A k \in CacheKeys :
          (store'[k] # store[k] /\ store'[k] # NoEntry)
            => /\ last'.kind = "ok"
               /\ last'.lastStatus = 200
               /\ last'.method = "POST"
               /\ last'.useCache
               /\ k = CacheKey(last'.method, last'.endpoint, last'.params)
     /\ (last'.kind = "error" \/ (last'.kind = "ok" /\ ~(last'.method = "POST" /\ last'.useCache)))
          => \A k \in CacheKeys : store'[k] = store[k] \/ store'[k] = NoEntry]_vars

\* a POST call with caching disabled succeeded and its entry is still absent
C16_Witness ==
  /\ last.kind = "ok"
  /\ last.method = "POST"
  /\ ~last.useCache
  /\ store[CacheKey("POST", last.endpoint, last.params)] = NoEntry

\* C17: every answer that carries x-ratelimit-remaining sets
\* rateLimitRemaining to it, whatever its status; a 429 answer does so before
\* the request is re-issued.
C17_EveryAnswerUpdatesBudget ==
  [][\A c \in Calls, r \in Answers :
       (ProviderAnswers(c, r) /\ r[2] # Null) => rateLimitRemaining' = r[2]]_vars

\* ------------------------------------------------------------------------
\* pLimit (src/index.ts 1960-1969)
\* ------------------------------------------------------------------------

\* units whose fn() has been called and has not settled yet
Running == {u \in Units : ust[u] = "running"}

\* units whose run() call is suspended on the queue promise
Waiting == {u \in Units : ust[u] \in {"queued", "woken"}}

InitExec ==
  /\ mode = "exec"
  /\ ApiIdle
  /\ BatchIdle
  /\ NormIdle
  /\ PipeIdle
  /\ PureIdle
  /\ concurrency \in 1..MaxConcurrency
  /\ active = 0
  /\ queue = <<>>
  /\ microtasks = <<>>
  /\ ust = [u \in Units |-> "idle"]
  /\ seqno = [u \in Units |-> 0]
  /\ submitted = 0
  /\ waited = {}

SubmitUnbounded(u) ==
  /\ ust[u] = "idle"
  /\ submitted' = submitted + 1
  /\ seqno' = [seqno EXCEPT ![u] = submitted + 1]
  /\ active' = active + 1
  /\ ust' = [ust EXCEPT ![u] = "running"]
  /\ UNCHANGED <<concurrency, queue, microtasks, waited>>

\* run(fn), up to its first suspension: either it waits in the queue or it
\* takes a slot and calls fn()
Submit(u) ==
  /\ ust[u] = "idle"
  /\ submitted' = submitted + 1
  /\ seqno' = [seqno EXCEPT ![u] = submitted + 1]
  /\ IF active >= concurrency
       THEN /\ queue' = Append(queue, u)
            /\ ust' = [ust EXCEPT ![u] = "queued"]
            /\ active' = active
            /\ waited' = waited \cup {u}
       ELSE /\ active' = active + 1
            /\ ust' = [ust EXCEPT ![u] = "running"]
            /\ queue' = queue
            /\ waited' = waited
  /\ UNCHANGED <<concurrency, microtasks>>

\* continuation of `await new Promise(r => queue.push(r))`: active++, fn()
Resume ==
  /\ microtasks # <<>>
  /\ LET u == Head(microtasks) IN
       /\ ust[u] = "woken"
       /\ active' = active + 1
       /\ ust' = [ust EXCEPT ![u] = "running"]
  /\ microtasks' = Tail(microtasks)
  /\ UNCHANGED <<concurrency, queue, seqno, submitted, waited>>

\* the promise returned by fn() settles, with a value or with an error
Settle(u) ==
  /\ ust[u] = "running"
  /\ ust' = [ust EXCEPT ![u] = "settled"]
  /\ UNCHANGED <<concurrency, active, queue, microtasks, seqno, submitted, waited>>

ReleaseNoWake(u) ==
  /\ ust[u] = "settled"
  /\ active' = active - 1
  /\ ust' = [ust EXCEPT ![u] = "done"]
  /\ UNCHANGED <<concurrency, queue, microtasks, seqno, submitted, waited>>

\* finally { next(); } : active--, and the first resolver of the queue is called
Release(u) ==
  /\ ust[u] = "settled"
  /\ active' = active - 1
  /\ IF queue # <<>>
       THEN /\ queue' = Tail(queue)
            /\ microtasks' = Append(microtasks, Head(queue))
            /\ ust' = [ust EXCEPT ![u] = "done", ![Head(queue)] = "woken"]
       ELSE /\ queue' = queue
            /\ microtasks' = microtasks
            /\ ust' = [ust EXCEPT ![u] = "done"]
  /\ UNCHANGED <<concurrency, seqno, submitted, waited>>

\* the variables of the other components, which the executor never touches
ExecFrame == UNCHANGED <<mode, apiVars, batchVars, normVars, pipeVars, pureVars>>

\* some caller submits a unit of work
RunCalled(u) == Submit(u) /\ ExecFrame

\* the microtask of the first woken run() call runs
WokenResumes == Resume /\ ExecFrame

\* the work of a running unit ends
UnitSettles(u) == Settle(u) /\ ExecFrame

\* the finally block of a settled unit runs
UnitReleases(u) == Release(u) /\ ExecFrame

NextExec ==
  \/ \E u \in Units : RunCalled(u)
  \/ WokenResumes
  \/ \E u \in Units : UnitSettles(u)
  \/ \E u \in Units : UnitReleases(u)

SpecExec == InitExec /\ [][NextExec]_vars

\* the scheduler runs every pending microtask, and every unit's work terminates
SpecExecFair ==
  /\ SpecExec
  /\ WF_vars(WokenResumes)
  /\ \A u \in Units : WF_vars(UnitSettles(u)) /\ WF_vars(UnitReleases(u))

\* C1: at any time the number of units started and not yet finished is at
\* most the configured maximum of the executor.
C1_AtMostCRunning == Cardinality(Running) <= concurrency

\* C6: a unit never starts running while a unit submitted before it is still
\* waiting for a slot.
C6_FifoStart ==
  [][\A u \in Units :
       (ust[u] # "running" /\ ust'[u] = "running") =>
         \A w \in Units \ {u} :
           ~(ust'[w] \in {"queued", "woken"} /\ seqno'[w] < seqno'[u])]_vars

\* C5: every submitted unit eventually completes.
C5_AllComplete == \A u \in Units : (ust[u] # "idle") ~> (ust[u] = "done")

\* a unit that had to wait in the queue has completed
C5_Witness == \E u \in waited : ust[u] = "done"

\* ------------------------------------------------------------------------
\* Batch loops: babbar_batch_overview (src/index.ts 1684-1715) and
\* babbar_induced_strength_batch (src/index.ts 2552-2564)
\* ------------------------------------------------------------------------
BatchTools == {"babbar_batch_overview", "babbar_induced_strength_batch"}

BatchTypes == {"host", "domain", "url"}

\* the hosts / domains / urls / pairs a caller may list
BatchItems == {"a", "b"}

\* x-ratelimit-remaining values seen while a batch runs
BatchHeaderVals == {Null, 1, 5}

BatchAnswers ==
  {<<200, h, d>> : h \in BatchHeaderVals, d \in Payloads}
    \cup {<<st, Null, "d1">> : st \in Statuses \ {200}}

SeqsUpTo(S, n) == UNION {[1..k -> S] : k \in 0..n}

\* the endpoint a unit of the loop calls
BatchEndpoint(t, ty) ==
  IF t = "babbar_induced_strength_batch" THEN "/url/fi"
  ELSE IF ty = "host" THEN "/host/overview/main"
  ELSE IF ty = "domain" THEN "/domain/overview/main"
  ELSE "/url/overview/main"

\* if (rateLimitRemaining !== null && rateLimitRemaining <= 1), which only
\* babbar_batch_overview evaluates
Throttles(t) ==
  t = "babbar_batch_overview" /\ rateLimitRemaining # Null /\ rateLimitRemaining <= 1

BatchRecordDropFailed(res, item, outcome) ==
  IF outcome.kind \in {"hit", "ok"}
    THEN Append(res, [item |-> item, success |-> TRUE, data |-> outcome.env, error |-> ""])
    ELSE res

\* results.push({ item, success: true, data }) or, in the catch,
\* results.push({ item, success: false, error: e.message })
BatchRecord(res, item, outcome) ==
  IF outcome.kind \in {"hit", "ok"}
    THEN Append(res, [item |-> item, success |-> TRUE, data |-> outcome.env, error |-> ""])
    ELSE Append(res, [item |-> item, success |-> FALSE, data |-> NoEnv,
                      error |-> outcome.message])

BatchFrame == UNCHANGED <<mode, execVars, normVars, pipeVars, pureVars>>

InitBatch ==
  /\ mode = "batch"
  /\ clock = 0
  /\ ticks = 0
  /\ store = [k \in CacheKeys |-> NoEntry]
  /\ rateLimitRemaining \in BatchHeaderVals
  /\ call = [c \in Calls |-> IdleCall]
  /\ started = 0
  /\ last = NoLast
  /\ okAt = [s \in Endpoints \X ParamVals |-> -1]
  /\ tool \in BatchTools
  /\ btype \in BatchTypes
  /\ tool = "babbar_induced_strength_batch" => btype = "url"
  /\ items \in SeqsUpTo(BatchItems, MaxItems)
  /\ idx = 1
  /\ bpc = "next"
  /\ pauseAt = 0
  /\ results = <<>>
  /\ ExecIdle
  /\ NormIdle
  /\ PipeIdle
  /\ PureIdle

\* the rate budget is critically low: await new Promise(r => setTimeout(r, 60000))
BatchThrottle ==
  /\ bpc = "next"
  /\ idx <= Len(items)
  /\ Throttles(tool)
  /\ bpc' = "pause"
  /\ pauseAt' = clock
  /\ last' = NoLast
  /\ UNCHANGED <<tool, btype, items, idx, results>>
  /\ UNCHANGED <<clock, ticks, store, rateLimitRemaining, call, started, okAt>>
  /\ BatchFrame

\* the unit of the current item is issued: await makeApiCall(endpoint, "POST", data)
BatchIssue ==
  /\ idx <= Len(items)
  /\ \/ bpc = "next" /\ ~Throttles(tool)
     \/ bpc = "pause" /\ clock >= pauseAt + RetryDelay
  /\ StartCall(1, "POST", BatchEndpoint(tool, btype), items[idx], TRUE)
  /\ IF last'.kind = "hit"
       THEN /\ results' = BatchRecord(results, items[idx], last')
            /\ idx' = idx + 1
            /\ bpc' = "next"
       ELSE /\ bpc' = "wait"
            /\ UNCHANGED <<idx, results>>
  /\ UNCHANGED <<tool, btype, items, pauseAt>>
  /\ BatchFrame

\* the provider answers the unit's request; unless it is rate-limited the unit
\* ends and its outcome is pushed to results
BatchAnswer(r) ==
  /\ bpc = "wait"
  /\ Respond(1, r[1], r[2], r[3])
  /\ IF last' # NoLast
       THEN /\ results' = BatchRecord(results, items[idx], last')
            /\ idx' = idx + 1
            /\ bpc' = "next"
       ELSE UNCHANGED <<idx, bpc, results>>
  /\ UNCHANGED <<tool, btype, items, pauseAt>>
  /\ BatchFrame

\* the interceptor re-issues the rate-limited request of the unit
BatchRetry ==
  /\ bpc = "wait"
  /\ Retry(1)
  /\ UNCHANGED batchVars
  /\ BatchFrame

BatchTick ==
  /\ ticks < MaxBatchTicks
  /\ Tick(RetryDelay)
  /\ UNCHANGED batchVars
  /\ BatchFrame

\* return asMcpContent({ results, ... })
BatchReturn ==
  /\ bpc = "next"
  /\ idx > Len(items)
  /\ bpc' = "done"
  /\ last' = NoLast
  /\ UNCHANGED <<tool, btype, items, idx, pauseAt, results>>
  /\ UNCHANGED <<clock, ticks, store, rateLimitRemaining, call, started, okAt>>
  /\ BatchFrame

NextBatch ==
  \/ BatchThrottle
  \/ BatchIssue
  \/ \E r \in BatchAnswers : BatchAnswer(r)
  \/ BatchRetry
  \/ BatchTick
  \/ BatchReturn

SpecBatch == InitBatch /\ [][NextBatch]_vars

\* C9: the batch tools hold one result entry per processed item, in input
\* order, each marked success or failure with its error; when the tool returns
\* there is exactly one entry per input item.
C9_OneResultPerItem ==
  /\ Len(results) = idx - 1
  /\ Len(results) <= Len(items)
  /\ \A i \in 1..Len(results) :
       /\ results[i].item = items[i]
       /\ results[i].success => results[i].data # NoEnv
       /\ ~results[i].success => results[i].error # ""
  /\ bpc = "done" => Len(results) = Len(items)

\* a batch that returned although an item failed, with a later item succeeding
C9_Witness ==
  /\ bpc = "done"
  /\ Len(results) >= 2
  /\ ~results[1].success
  /\ results[2].success

\* ------------------------------------------------------------------------
\* Duplication percentage normalizer normPct (src/index.ts 1337-1344)
\* Values are counted in ten-thousandths: 1.0 is 10000 and 100.0 is 1000000.
\* ------------------------------------------------------------------------
\* the result NaN of normPct
NaN == -1000000000

\* 1 and 100 in ten-thousandths
One == 10000

Hundred == 100 * One

\* the raw values: NaN, values close to 0 and values from -5 to 110
RawVals ==
  {NaN} \cup (-MaxFine..MaxFine) \cup {25000 * i : i \in -2..MaxCoarse} \cup {One, One + 1}

\* Math.round(n * 100) / 100 : two decimals, halves rounded up
Round2(n) == ((n + 50) \div 100) * 100

\* normPct(v)
normPct(v) ==
  IF v = NaN THEN NaN
  ELSE LET a == IF v <= One THEN v * 100 ELSE v
           b == IF a < 0 THEN 0 ELSE a
           c == IF b > Hundred THEN Hundred ELSE b
       IN Round2(c)

NormFrame == UNCHANGED <<mode, execVars, apiVars, batchVars, pipeVars, pureVars>>

InitNorm ==
  /\ mode = "norm"
  /\ nv \in RawVals
  /\ n1 = 0
  /\ n2 = 0
  /\ npc = "raw"
  /\ ExecIdle
  /\ ApiIdle
  /\ BatchIdle
  /\ PipeIdle
  /\ PureIdle

\* const to = normPct(b.percent_to ?? ...)
NormOnce ==
  /\ npc = "raw"
  /\ n1' = normPct(nv)
  /\ npc' = "once"
  /\ UNCHANGED <<nv, n2>>
  /\ NormFrame

\* the normalizer applied to its own result
NormTwice ==
  /\ npc = "once"
  /\ n2' = normPct(n1)
  /\ npc' = "twice"
  /\ UNCHANGED <<nv, n1>>
  /\ NormFrame

NextNorm ==
  \/ NormOnce
  \/ NormTwice

SpecNorm == InitNorm /\ [][NextNorm]_vars

\* C10: for every raw value that normalizes to a finite number, normalizing
\* the result again gives the same result, and the result lies in [0, 100].
C10_Idempotent ==
  (npc = "twice" /\ n1 # NaN) => (n2 = n1 /\ 0 <= n1 /\ n1 <= Hundred)

\* ------------------------------------------------------------------------
\* Backlink opportunity pipeline babbar_backlink_opportunities_spotfinder
\* (src/index.ts 1922-2205). Each makeApiCall of the handler is an await that
\* ends with the envelope of the provider's answer or with a thrown error.
\* ------------------------------------------------------------------------
Targets == {"t1", "t2"}

\* the lists the automatic selection can produce
SelectedLists == {<<>>, <<"t1">>}

\* the numeric arguments of a call: the defaults scaled down, and a call that
\* asks for one page per host, one source, one candidate, one call at a time,
\* one result and no minimum strength
BaseParams ==
  [topPagesPerHost |-> 2, sourcesPoolCap |-> 3, maxCandidatesPerTarget |-> 2,
   fiThreshold |-> 10, concurrencyFi |-> 2, topLimit |-> 3]

SmallParams ==
  [topPagesPerHost |-> 1, sourcesPoolCap |-> 1, maxCandidatesPerTarget |-> 1,
   fiThreshold |-> 0, concurrencyFi |-> 1, topLimit |-> 1]

\* the defaults with one induced strength call at a time
SerialParams == [BaseParams EXCEPT !.concurrencyFi = 1]

\* the calls of the tool: with content and explicit targets, or with neither
PipeArgs ==
  {[params |-> p, content |-> "brief", targets |-> <<"t1", "t2">>] : p \in {BaseParams, SmallParams}}
  \cup {[params |-> p, content |-> "", targets |-> <<>>] : p \in {SerialParams, SmallParams}}

\* rows of the /host/spotsfinder answer; a row may lack its host
SfRows ==
  {[host |-> "h1", score |-> 2], [host |-> "h2", score |-> 1], [host |-> "", score |-> 1]}

\* rows of a /host/pages/top/sv answer; a row may lack its url
Pages ==
  {[url |-> "u1", sv |-> 2, pv |-> 1], [url |-> "u2", sv |-> 1, pv |-> 1],
   [url |-> "", sv |-> 1, pv |-> 1]}

PageLists ==
  {<<>>} \cup {<<a>> : a \in Pages} \cup {l \in [1..2 -> Pages] : l[1] # l[2]}

\* what the await of a top pages call ends with: a thrown error or the rows
TopAnswers == {NotAsked} \cup {[ok |-> TRUE, urls |-> l] : l \in PageLists}

FiVals == {5, 20}

\* what the await of makeApiCall("/url/fi") ends with
FiAnswers == {[ok |-> FALSE, fi |-> 0]} \cup {[ok |-> TRUE, fi |-> v] : v \in FiVals}

Take(s, n) == SubSeq(s, 1, IF n < Len(s) THEN n ELSE Len(s))

\* a[1] - b[1] || a[2] - b[2] || a[3] - b[3] is positive
LexGt(a, b) ==
  \/ a[1] > b[1]
  \/ a[1] = b[1] /\ a[2] > b[2]
  \/ a[1] = b[1] /\ a[2] = b[2] /\ a[3] > b[3]

\* Array.prototype.sort with a descending comparator over the keys: elements
\* that compare equal keep their order
SortedBy(s, key) ==
  LET n == Len(s)
      rank(i) == Cardinality({j \in 1..n : LexGt(key[j], key[i]) \/ (key[j] = key[i] /\ j < i)}) + 1
  IN [r \in 1..n |-> s[CHOOSE i \in 1..n : rank(i) = r]]

\* Array.from(new Map(src.map(p => [p.url, p])).values()): one entry per url,
\* at the place of its first occurrence, holding its last occurrence
DedupByUrl(src) ==
  LET n == Len(src)
      firsts == SelectSeq([i \in 1..n |-> i],
                          LAMBDA i : \A j \in 1..(i - 1) : src[j].url # src[i].url)
      lastOf(i) == CHOOSE j \in i..n :
                     /\ src[j].url = src[i].url
                     /\ \A k \in (j + 1)..n : src[k].url # src[i].url
  IN [k \in 1..Len(firsts) |-> src[lastOf(firsts[k])]]

UniqueSourcesNoExclusion(src, excl) ==
  SelectSeq(DedupByUrl(src), LAMBDA p : p.url # "" /\ p.host # "")

\* const uniqueSources
UniqueSources(src, excl) ==
  SelectSeq(DedupByUrl(src), LAMBDA p : p.url # "" /\ p.host # "" /\ p.host \notin excl)

\* const preselected
Preselect(uniq, n) ==
  Take(SortedBy(uniq, [i \in 1..Len(uniq) |-> <<uniq[i].sv, uniq[i].pv, uniq[i].score>>]), n)

RankCutFirst(o, n) ==
  LET cut == Take(o, n)
  IN SortedBy(cut, [i \in 1..Len(cut) |-> <<cut[i].inducedStrength, cut[i].score, cut[i].sv>>])

\* const opportunities
Rank(o, n) ==
  Take(SortedBy(o, [i \in 1..Len(o) |-> <<o[i].inducedStrength, o[i].score, o[i].sv>>]), n)

\* the source records stage 4 pushes for host row h from the rows of an answer
SourcesOf(h, rows, n) ==
  LET urls == Take(rows, n)
  IN [i \in 1..Len(urls) |->
        [url |-> urls[i].url, host |-> h.host, sv |-> urls[i].sv, pv |-> urls[i].pv,
         score |-> h.score]]

\* the opportunity record stage 5 pushes for source p and target t
Opp(p, t, fi) ==
  [prospectUrl |-> p.url, prospectHost |-> p.host, targetUrl |-> t,
   inducedStrength |-> fi, sv |-> p.sv, pv |-> p.pv, score |-> p.score]

PipeFrame == UNCHANGED <<mode, apiVars, batchVars, normVars, pureVars>>

\* the handler is called with one of the argument records of A
PipeStarts(A) ==
  /\ mode = "pipe"
  /\ ApiIdle
  /\ BatchIdle
  /\ NormIdle
  /\ PureIdle
  /\ \E a \in A :
       /\ params = a.params
       /\ userContent = a.content
       /\ initialTargets = a.targets
  /\ ppc = "kw"
  /\ sfContent = ""
  /\ targets = <<>>
  /\ tIdx = 1
  /\ ourRefHosts = {}
  /\ sfHosts = <<>>
  /\ hIdx = 1
  /\ topSeen = [h \in Hosts |-> NotAsked]
  /\ sources = <<>>
  /\ uniqueSources = <<>>
  /\ preselected = <<>>
  /\ ops = <<>>
  /\ fiFailed = {}
  /\ opportunities = <<>>
  /\ concurrency = params.concurrencyFi
  /\ active = 0
  /\ queue = <<>>
  /\ microtasks = <<>>
  /\ ust = [u \in Units |-> "idle"]
  /\ seqno = [u \in Units |-> 0]
  /\ submitted = 0
  /\ waited = {}

InitPipe == PipeStarts(PipeArgs)

\* the handler returns with the ranked list, or throws
Return(o) == ppc' = "done" /\ opportunities' = o

Throw == ppc' = "failed" /\ opportunities' = <<>>

\* stage 0: the /host/keywords call ends; kw is the brief its rows of rank <= 20 give.
\* With explicit targets the handler goes on to the /host/backlinks/host call.
KeywordsAnswer(ok, kw) ==
  /\ ppc = "kw"
  /\ IF ~ok
       THEN Throw /\ UNCHANGED <<sfContent, targets>>
       ELSE /\ sfContent' = IF userContent # "" THEN userContent ELSE kw
            /\ opportunities' = opportunities
            /\ IF initialTargets # <<>>
                 THEN targets' = initialTargets /\ ppc' = "bl"
                 ELSE targets' = targets /\ ppc' = "pages"
  /\ UNCHANGED <<params, userContent, initialTargets, tIdx, ourRefHosts, sfHosts, hIdx,
                 topSeen, sources, uniqueSources, preselected, ops, fiFailed>>
  /\ UNCHANGED execVars
  /\ PipeFrame

\* stage 1: the /host/pages/internal call ends; sel is the list the selection
\* keeps from its rows
InternalPagesAnswer(ok, sel) ==
  /\ ppc = "pages"
  /\ IF ~ok
       THEN Throw /\ UNCHANGED targets
       ELSE targets' = sel /\ ppc' = "bl" /\ opportunities' = opportunities
  /\ UNCHANGED <<params, userContent, initialTargets, sfContent, tIdx, ourRefHosts, sfHosts,
                 hIdx, topSeen, sources, uniqueSources, preselected, ops, fiFailed>>
  /\ UNCHANGED execVars
  /\ PipeFrame

\* stage 2: the /host/backlinks/host call ends; without a brief the handler
\* throws, else it goes on to the /host/spotsfinder call
BacklinksAnswer(ok, hs) ==
  /\ ppc = "bl"
  /\ IF ~ok
       THEN Throw /\ UNCHANGED ourRefHosts
       ELSE /\ ourRefHosts' = hs
            /\ IF sfContent = ""
                 THEN Throw
                 ELSE ppc' = "sf" /\ opportunities' = opportunities
  /\ UNCHANGED <<params, userContent, initialTargets, sfContent, targets, tIdx, sfHosts, hIdx,
                 topSeen, sources, uniqueSources, preselected, ops, fiFailed>>
  /\ UNCHANGED execVars
  /\ PipeFrame

\* stage 3: the /host/spotsfinder call ends
SpotFinderAnswer(ok, rows) ==
  /\ ppc = "sf"
  /\ IF ~ok
       THEN Throw /\ UNCHANGED sfHosts
       ELSE /\ sfHosts' = SelectSeq(rows, LAMBDA x : x.host # "")
            /\ IF sfHosts' = <<>>
                 THEN Return(<<>>)
                 ELSE ppc' = "top" /\ opportunities' = opportunities
  /\ UNCHANGED <<params, userContent, initialTargets, sfContent, targets, tIdx, ourRefHosts,
                 hIdx, topSeen, sources, uniqueSources, preselected, ops, fiFailed>>
  /\ UNCHANGED execVars
  /\ PipeFrame

\* stage 4: the top pages call of the current host ends, by an answer of the
\* provider or by the cached envelope of an earlier call for the same host.
\* After the last host, or once the pool reaches its cap, the pool is
\* deduplicated and filtered and stage 5 begins.
TopPagesAnswer(ans) ==
  /\ ppc = "top"
  /\ LET h == sfHosts[hIdx]
         got == IF topSeen[h.host].ok THEN topSeen[h.host] ELSE ans
         src == IF got.ok
                  THEN sources \o SourcesOf(h, got.urls, params.topPagesPerHost)
                  ELSE sources
         uniq == UniqueSources(src, ourRefHosts)
     IN /\ ans = got
        /\ topSeen' = [topSeen EXCEPT ![h.host] = got]
        /\ sources' = src
        /\ IF Len(src) < params.sourcesPoolCap /\ hIdx < Len(sfHosts)
             THEN /\ hIdx' = hIdx + 1
                  /\ ppc' = "top"
                  /\ UNCHANGED <<uniqueSources, preselected, opportunities>>
             ELSE /\ hIdx' = hIdx
                  /\ uniqueSources' = uniq
                  /\ IF uniq = <<>> \/ targets = <<>>
                       THEN Return(<<>>) /\ preselected' = preselected
                       ELSE /\ preselected' = Preselect(uniq, params.maxCandidatesPerTarget)
                            /\ ppc' = "map"
                            /\ opportunities' = opportunities
  /\ UNCHANGED <<params, userContent, initialTargets, sfContent, targets, tIdx, ourRefHosts,
                 sfHosts, ops, fiFailed>>
  /\ UNCHANGED execVars
  /\ PipeFrame

\* stage 5: preselected.map hands the next source to fiLimit
FiSubmit(u) ==
  /\ ppc = "map"
  /\ u = submitted + 1
  /\ u <= Len(preselected)
  /\ Submit(u)
  /\ ppc' = IF u = Len(preselected) THEN "fi" ELSE "map"
  /\ UNCHANGED <<params, userContent, initialTargets, sfContent, targets, tIdx, ourRefHosts,
                 sfHosts, hIdx, topSeen, sources, uniqueSources, preselected, ops, fiFailed,
                 opportunities>>
  /\ PipeFrame

\* the fi kept for an answer: getFi turns a thrown error into fi 0
FiOf(ans) == IF ans.ok THEN ans.fi ELSE 0

\* stage 5: the /url/fi call of a running unit ends and the unit's body runs to
\* its end; the continuations of an earlier answer have all run by then
FiAnswer(u, ans) ==
  /\ ppc = "fi"
  /\ \A w \in Units : ust[w] \notin {"settled", "woken"}
  /\ Settle(u)
  /\ LET p == preselected[u]
         t == targets[tIdx]
     IN /\ ops' = IF FiOf(ans) >= params.fiThreshold
                    THEN Append(ops, Opp(p, t, FiOf(ans)))
                    ELSE ops
        /\ fiFailed' = IF ans.ok THEN fiFailed ELSE fiFailed \cup {<<p.url, t>>}
  /\ UNCHANGED <<ppc, params, userContent, initialTargets, sfContent, targets, tIdx,
                 ourRefHosts, sfHosts, hIdx, topSeen, sources, uniqueSources, preselected,
                 opportunities>>
  /\ PipeFrame

\* stage 5: the finally block of the unit that has just ended
FiRelease(u) ==
  /\ ppc = "fi"
  /\ Release(u)
  /\ UNCHANGED pipeVars
  /\ PipeFrame

\* stage 5: the unit the release has woken takes its slot and calls getFi
FiResume ==
  /\ ppc = "fi"
  /\ Resume
  /\ UNCHANGED pipeVars
  /\ PipeFrame

\* stage 5: Promise.all of the current target resolves; the loop goes on to
\* the next target, or the handler ranks what it kept and returns
FiAllDone ==
  /\ ppc = "fi"
  /\ \A u \in 1..Len(preselected) : ust[u] = "done"
  /\ IF tIdx < Len(targets)
       THEN /\ tIdx' = tIdx + 1
            /\ ppc' = "map"
            /\ opportunities' = opportunities
       ELSE /\ tIdx' = tIdx
            /\ Return(Rank(ops, params.topLimit))
  /\ ust' = [u \in Units |-> "idle"]
  /\ seqno' = [u \in Units |-> 0]
  /\ submitted' = 0
  /\ waited' = {}
  /\ UNCHANGED <<concurrency, active, queue, microtasks>>
  /\ UNCHANGED <<params, userContent, initialTargets, sfContent, targets, ourRefHosts,
                 sfHosts, hIdx, topSeen, sources, uniqueSources, preselected, ops, fiFailed>>
  /\ PipeFrame

NextPipe ==
  \/ \E ok \in BOOLEAN, kw \in {"", "kw"} : KeywordsAnswer(ok, kw)
  \/ \E ok \in BOOLEAN, sel \in SelectedLists : InternalPagesAnswer(ok, sel)
  \/ \E ok \in BOOLEAN, hs \in SUBSET Hosts : BacklinksAnswer(ok, hs)
  \/ \E ok \in BOOLEAN, rows \in SeqsUpTo(SfRows, MaxSfHosts) : SpotFinderAnswer(ok, rows)
  \/ \E ans \in TopAnswers : TopPagesAnswer(ans)
  \/ \E u \in Units : FiSubmit(u)
  \/ \E u \in Units, ans \in FiAnswers : FiAnswer(u, ans)
  \/ \E u \in Units : FiRelease(u)
  \/ FiResume
  \/ FiAllDone

SpecPipe == InitPipe /\ [][NextPipe]_vars

\* C7: when the pipeline returns, no opportunity of the returned list has a
\* source host that belongs to the exclusion set, whatever strengths the
\* provider answered.
C7_NoExcludedHost ==
  ppc = "done" =>
    \A i \in 1..Len(opportunities) : opportunities[i].prospectHost \notin ourRefHosts

\* the pipeline returned opportunities although the pool held a page of an
\* excluded host
C7_Witness ==
  /\ ppc = "done"
  /\ opportunities # <<>>
  /\ \E i \in 1..Len(sources) : sources[i].url # "" /\ sources[i].host \in ourRefHosts

\* C8: a failing top pages call or a failing induced strength call never makes
\* the pipeline fail; a host whose call failed contributes no source and a
\* pair whose call failed contributes no opportunity.
C8_ItemFailuresIsolated ==
  /\ [][(ppc \in {"top", "map", "fi"}) => ~(ppc' = "failed")]_vars
  /\ [](\A i \in 1..Len(sources) : topSeen[sources[i].host].ok)
  /\ [](\A i \in 1..Len(ops) : <<ops[i].prospectUrl, ops[i].targetUrl>> \notin fiFailed)

\* ------------------------------------------------------------------------
\* Helpers that compute a value from their arguments. Each has its own
\* specification: the arguments are drawn at the start and one step applies
\* the helper.
\* ------------------------------------------------------------------------
RestIdle == ExecIdle /\ ApiIdle /\ BatchIdle /\ NormIdle /\ PipeIdle

RestFrame == UNCHANGED <<mode, execVars, apiVars, batchVars, normVars, pipeVars>>

\* ------------------------------------------------------------------------
\* safeExtractData (src/index.ts 22-64). A response is the envelope
\* formatResponse builds, whose own fields are never arrays; its data payload
\* is falsy, a scalar, an array or an object with fields.
\* ------------------------------------------------------------------------
Arr(l) == [arr |-> TRUE, v |-> l]

\* objects with at most MaxFields array-valued fields, each [] or a list that
\* names its field
ObjectPayloads ==
  {[kind |-> "object", items |-> <<>>,
    fields |-> [f \in FieldNames |->
                  IF f \notin S THEN NotArr ELSE IF f \in F THEN Arr(<<f>>) ELSE Arr(<<>>)]] :
      S \in {T \in SUBSET FieldNames : Cardinality(T) <= MaxFields},
      F \in SUBSET FieldNames}

\* the responses: none, or an envelope around one of the payload shapes
Responses ==
  {NoResp,
   [kind |-> "falsy", items |-> <<>>, fields |-> NoFields],
   [kind |-> "scalar", items |-> <<>>, fields |-> NoFields],
   [kind |-> "array", items |-> <<>>, fields |-> NoFields],
   [kind |-> "array", items |-> <<"item">>, fields |-> NoFields]}
  \cup ObjectPayloads

DataTypes == {"keywords", "hosts", "urls", "pages", "backlinks", "buckets", "undefined"}

\* the fields candidates.push(...) reads, in its order
CandidateFields(dataType) ==
  IF dataType = "keywords" THEN <<"entries", "keywords", "results">>
  ELSE IF dataType = "hosts" THEN <<"hosts", "similar", "results">>
  ELSE IF dataType \in {"urls", "pages"} THEN <<"pages", "urls", "results">>
  ELSE IF dataType = "backlinks" THEN <<"backlinks", "links", "results">>
  ELSE <<"entries", "keywords", "hosts", "similar", "pages", "urls", "backlinks", "links",
         "results">>

\* const data = response.data || response
DataOf(response) ==
  IF response.kind = "falsy"
    THEN [kind |-> "object", items |-> <<>>, fields |-> NoFields]
    ELSE response

\* const candidates, with data itself pushed last when it is an array
Candidates(data, dataType) ==
  LET names == CandidateFields(dataType)
  IN [i \in 1..Len(names) |-> data.fields[names[i]]]
       \o (IF data.kind = "array" THEN <<Arr(data.items)>> ELSE <<>>)

FirstNonEmptyArray(cands) ==
  IF \E i \in 1..Len(cands) : cands[i].arr /\ cands[i].v # <<>>
    THEN cands[CHOOSE i \in 1..Len(cands) :
                 /\ cands[i].arr /\ cands[i].v # <<>>
                 /\ \A j \in 1..(i - 1) : ~(cands[j].arr /\ cands[j].v # <<>>)].v
    ELSE <<>>

\* for (const candidate of candidates) if (Array.isArray(candidate)) return candidate
FirstArray(cands) ==
  IF \E i \in 1..Len(cands) : cands[i].arr
    THEN cands[CHOOSE i \in 1..Len(cands) :
                 cands[i].arr /\ \A j \in 1..(i - 1) : ~cands[j].arr].v
    ELSE <<>>

safeExtractData(response, dataType) ==
  IF response.kind = "null" THEN <<>>
  ELSE FirstArray(Candidates(DataOf(response), dataType))

InitExtract ==
  /\ mode = "extract"
  /\ RestIdle
  /\ TopIdle
  /\ SelIdle
  /\ DupIdle
  /\ RelIdle
  /\ KwIdle
  /\ exResp \in Responses
  /\ exType \in DataTypes
  /\ exOut = <<>>
  /\ expc = "call"

ExtractReturns ==
  /\ expc = "call"
  /\ exOut' = safeExtractData(exResp, exType)
  /\ expc' = "done"
  /\ UNCHANGED <<exResp, exType>>
  /\ UNCHANGED <<dupVars, relVars, kwVars>>
  /\ UNCHANGED <<topVars, selVars>>
  /\ RestFrame

NextExtract == ExtractReturns

SpecExtract == InitExtract /\ [][NextExtract]_vars

\* C14: for a response that is not null, safeExtractData returns the first
\* field, in the priority order of the type (the generic order for an unknown
\* type), whose value is an array, even an empty one; failing that the data
\* payload itself when it is an array; and [] when no candidate qualifies.
C14_FirstSequenceCandidate ==
  (expc = "done" /\ exResp.kind # "null") =>
    LET order == IF exType = "keywords" THEN <<"entries", "keywords", "results">>
                 ELSE IF exType = "hosts" THEN <<"hosts", "similar", "results">>
                 ELSE IF exType \in {"urls", "pages"} THEN <<"pages", "urls", "results">>
                 ELSE IF exType = "backlinks" THEN <<"backlinks", "links", "results">>
                 ELSE <<"entries", "keywords", "hosts", "similar", "pages", "urls",
                        "backlinks", "links", "results">>
        fields == IF exResp.kind = "object" THEN exResp.fields ELSE NoFields
        hits == {i \in 1..Len(order) : fields[order[i]].arr}
    IN IF hits # {}
         THEN \E i \in hits : (\A j \in hits : i <= j) /\ exOut = fields[order[i]].v
         ELSE IF exResp.kind = "array" THEN exOut = exResp.items
         ELSE exOut = <<>>

\* an empty first candidate was returned although a later one held rows
C14_Witness ==
  /\ expc = "done"
  /\ exType = "keywords"
  /\ exResp.kind = "object"
  /\ exResp.fields["entries"] = Arr(<<>>)
  /\ exResp.fields["results"] = Arr(<<"results">>)
  /\ exOut = <<>>

\* ------------------------------------------------------------------------
\* Duplication classifier babbar_host_duplicate (src/index.ts 1319-1444).
\* Percentages are counted in ten-thousandths, as for normPct.
\* ------------------------------------------------------------------------
\* raw percent_from values: missing and the fraction 0.9
DupFrom == {NaN, 9000}

\* raw percent_to values: missing, the fraction 0.869, 86.9, 87.0, 95 and 120
DupTo == {NaN, 8690, 869000, 870000, 95 * One, 120 * One}

\* raw pairs values
DupPairs == {0, 90}

RawRows == [percent_from : DupFrom, percent_to : DupTo, pairs : DupPairs]

\* args.threshold: absent (87), or supplied
Thresholds == {87 * One, 50 * One, 96 * One}

\* the envelope of /host/duplicate with the bucket list l in field f of its
\* payload, or as the payload itself
DupEnvelope(f, l) ==
  IF f = "array"
    THEN [kind |-> "array", items |-> l, fields |-> NoFields]
    ELSE [kind |-> "object", items |-> <<>>, fields |-> [NoFields EXCEPT ![f] = Arr(l)]]

\* where the provider puts the list, and args.includeBelow
DupCalls ==
  {[field |-> "results", includeBelow |-> FALSE],
   [field |-> "array", includeBelow |-> TRUE],
   [field |-> "buckets", includeBelow |-> TRUE]}

\* const rawBuckets: safeExtractData always returns an array, so none of the
\* alternatives after ?? is ever evaluated
RawBucketsOf(resp) == safeExtractData(resp, "buckets")

\* const buckets
Buckets(raw) ==
  SelectSeq([i \in 1..Len(raw) |->
               [percent_from |-> normPct(raw[i].percent_from),
                percent_to |-> normPct(raw[i].percent_to),
                pairs |-> raw[i].pairs]],
            LAMBDA b : b.percent_from # NaN /\ b.percent_to # NaN)

crossesThresholdStrict(b, thr) == b.percent_to > thr

\* const crossesThreshold
crossesThreshold(b, thr) == b.percent_to >= thr

\* const severityOf
severityOf(b, thr) ==
  IF b.percent_to >= 95 * One THEN "blocker"
  ELSE IF b.percent_to >= 92 * One THEN "critical"
  ELSE IF b.percent_to >= thr THEN "high"
  ELSE "info"

\* Math.log10 on the values pairs + 10 takes here
Log10(n) == IF n = 100 THEN 2 ELSE 1

\* Math.round of a value in ten-thousandths, as an integer
RoundInt(x) == (x + (One \div 2)) \div One

\* const priorityScore
priorityScore(b, thr) == RoundInt((b.percent_to - thr + One) * Log10(b.pairs + 10))

\* const annotated
Annotate(bs, thr) ==
  [i \in 1..Len(bs) |->
     [percent_from |-> bs[i].percent_from, percent_to |-> bs[i].percent_to,
      pairs |-> bs[i].pairs, isProblematic |-> crossesThreshold(bs[i], thr),
      severity |-> severityOf(bs[i], thr), priority |-> priorityScore(bs[i], thr)]]

\* const sortedProblem
SortedProblem(an) ==
  LET pb == SelectSeq(an, LAMBDA b : b.isProblematic)
  IN SortedBy(pb, [i \in 1..Len(pb) |-> <<pb[i].priority, pb[i].percent_to, pb[i].pairs>>])

\* const sortedNonProblem
SortedNonProblem(an) ==
  LET np == SelectSeq(an, LAMBDA b : ~b.isProblematic)
  IN SortedBy(np, [i \in 1..Len(np) |-> <<np[i].percent_to, np[i].pairs, 0>>])

InitDup ==
  /\ mode = "dup"
  /\ RestIdle
  /\ TopIdle
  /\ SelIdle
  /\ ExtractIdle
  /\ RelIdle
  /\ KwIdle
  /\ \E c \in DupCalls, l \in SeqsUpTo(RawRows, MaxBuckets) :
       /\ dupResp = DupEnvelope(c.field, l)
       /\ includeBelow = c.includeBelow
  /\ threshold \in Thresholds
  /\ annotated = <<>>
  /\ resultBuckets = <<>>
  /\ dpc = "call"

\* the handler, from the envelope of /host/duplicate to the buckets it returns
DupReturns ==
  /\ dpc = "call"
  /\ LET an == Annotate(Buckets(RawBucketsOf(dupResp)), threshold)
     IN /\ annotated' = an
        /\ resultBuckets' = IF includeBelow
                              THEN SortedProblem(an) \o SortedNonProblem(an)
                              ELSE SortedProblem(an)
  /\ dpc' = "done"
  /\ UNCHANGED <<dupResp, threshold, includeBelow>>
  /\ UNCHANGED <<extractVars, relVars, kwVars>>
  /\ UNCHANGED <<topVars, selVars>>
  /\ RestFrame

NextDup == DupReturns

SpecDup == InitDup /\ [][NextDup]_vars

\* C11: every bucket the classifier keeps is marked isProblematic exactly
\* when its normalized range end is at least the threshold; with threshold 87
\* a bucket ending at 86.9 is not problematic and one ending at 87.0 is.
C11_ProblematicIffAtThreshold ==
  dpc = "done" =>
    LET raw == RawBucketsOf(dupResp)
        kept == SelectSeq(raw, LAMBDA r : normPct(r.percent_from) # NaN
                                            /\ normPct(r.percent_to) # NaN)
    IN /\ Len(annotated) = Len(kept)
       /\ \A i \in 1..Len(annotated) :
            LET end == normPct(kept[i].percent_to) IN
              /\ annotated[i].isProblematic <=> end >= threshold
              /\ (threshold = 87 * One /\ end = 869000) => ~annotated[i].isProblematic
              /\ (threshold = 87 * One /\ end = 870000) => annotated[i].isProblematic

\* with threshold 87 a bucket ending at 87.0 was marked and one ending at
\* 86.9 was not
C11_Witness ==
  /\ dpc = "done"
  /\ threshold = 87 * One
  /\ \E i \in 1..Len(annotated) :
       annotated[i].percent_to = 870000 /\ annotated[i].isProblematic
  /\ \E i \in 1..Len(annotated) :
       annotated[i].percent_to = 869000 /\ ~annotated[i].isProblematic

\* ------------------------------------------------------------------------
\* calculateCompetitorRelevance (src/index.ts 67-84). Keywords are numbered;
\* the scores are exact fractions.
\* ------------------------------------------------------------------------
\* the list of n consecutive keywords from keyword s on, each r times in a row
Run(s, n, r) == [i \in 1..(n * r) |-> s + ((i - 1) \div r)]

\* the keyword lists extractKeywords gives for a competitor: one row per
\* keyword, or two rows for every keyword
CompetitorLists == {Run(s, n, r) : s \in {1, 5}, n \in 0..MaxLen, r \in {1, 2}}

\* the keyword sets of the base host
BaseSets == {1..b : b \in {0, 9, 10, 12}}

\* (comp.score || 0) * 100
Similarities == {0, 50, 80, 100}

\* a > b for fractions with positive denominators
FracGt(a, b) == a.num * b.den > b.num * a.den

FracEq(a, b) == a.num * b.den = b.num * a.den

calculateCompetitorRelevance(base, list, sim) ==
  LET commonCount == Len(SelectSeq(list, LAMBDA kw : kw \in base))
      commonRatio == IF Len(list) > 0 THEN Frac(commonCount, Len(list)) ELSE Frac(0, 1)
      \* similarityScore * 0.6 + commonRatio * 100 * 0.4
      relevanceScore == Frac(6 * sim * commonRatio.den + 400 * commonRatio.num,
                             10 * commonRatio.den)
  IN [commonCount |-> commonCount, commonRatio |-> commonRatio,
      relevanceScore |-> relevanceScore,
      isRelevant |-> commonCount >= 10 /\ FracGt(relevanceScore, Frac(50, 1))]

InitRel ==
  /\ mode = "rel"
  /\ RestIdle
  /\ TopIdle
  /\ SelIdle
  /\ ExtractIdle
  /\ DupIdle
  /\ KwIdle
  /\ baseKeywords \in BaseSets
  /\ competitorKeywords \in CompetitorLists
  /\ similarityScore \in Similarities
  /\ relevance = NoRelevance
  /\ rpc = "call"

RelReturns ==
  /\ rpc = "call"
  /\ relevance' = calculateCompetitorRelevance(baseKeywords, competitorKeywords, similarityScore)
  /\ rpc' = "done"
  /\ UNCHANGED <<baseKeywords, competitorKeywords, similarityScore>>
  /\ UNCHANGED <<extractVars, dupVars, kwVars>>
  /\ UNCHANGED <<topVars, selVars>>
  /\ RestFrame

NextRel == RelReturns

SpecRel == InitRel /\ [][NextRel]_vars

\* C12: the value returned has commonCount equal to the number of keywords
\* that are both in the competitor list and in the base set, commonRatio equal
\* to commonCount over the length of the list (0 for an empty list),
\* relevanceScore equal to 0.6 * similarityScore + 40 * commonRatio, and
\* isRelevant true exactly when commonCount >= 10 and relevanceScore > 50;
\* 12 common keywords of 100 with similarity 80 give 52.8 and true.
C12_RelevanceFormula ==
  rpc = "done" =>
    LET n == Len(competitorKeywords)
        common == {competitorKeywords[i] : i \in 1..n} \cap baseKeywords
        count == Cardinality(common)
        ratio == IF n > 0 THEN Frac(count, n) ELSE Frac(0, 1)
        score == Frac(6 * similarityScore * ratio.den + 400 * ratio.num, 10 * ratio.den)
    IN /\ relevance.commonCount = count
       /\ FracEq(relevance.commonRatio, ratio)
       /\ FracEq(relevance.relevanceScore, score)
       /\ relevance.isRelevant <=> (count >= 10 /\ FracGt(score, Frac(50, 1)))
       /\ (count = 12 /\ n = 100 /\ similarityScore = 80) =>
            (FracEq(relevance.relevanceScore, Frac(528, 10)) /\ relevance.isRelevant)

\* ------------------------------------------------------------------------
\* findKeywordOpportunities (src/index.ts 98-138). A row without a position
\* has position 0 here, which the code also reads as missing.
\* ------------------------------------------------------------------------
\* 999 = not ranked
Unranked == 999

BaseRow(k, pos) == [keyword |-> k, position |-> pos]

\* the keyword rows of the base host: none, one row, or two rows for a keyword
BaseLists ==
  {<<>>, <<BaseRow("gadgets", 0)>>, <<BaseRow("gadgets", 5)>>, <<BaseRow("Gadgets", 10)>>,
   <<BaseRow("gadgets", 11)>>, <<BaseRow("widgets", 5)>>, <<BaseRow("", 5)>>,
   <<BaseRow("gadgets", 5), BaseRow("gadgets", 11)>>,
   <<BaseRow("gadgets", 11), BaseRow("gadgets", 5)>>}

\* the keyword rows of a competitor
CompetitorRows ==
  [keyword : {"gadgets"}, position : {0, 3, 4, 5, 6, 10, 11}, volume : {0, 100}]
    \cup {[keyword |-> "Gadgets", position |-> 3, volume |-> 100],
          [keyword |-> "", position |-> 3, volume |-> 100]}

\* toLowerCase()
Lower(k) == IF k = "Gadgets" THEN "gadgets" ELSE k

\* Number(kw.position || kw.rank || 999)
PositionOf(row) == IF row.position = 0 THEN Unranked ELSE row.position

\* baseKwMap.get(keyword) || 999: the map holds, for a keyword, the position
\* of the last base row that carries it
OurPosition(base, keyword) ==
  LET at == {i \in 1..Len(base) : Lower(base[i].keyword) # "" /\ Lower(base[i].keyword) = keyword}
  IN IF at = {} THEN Unranked
     ELSE PositionOf(base[CHOOSE i \in at : \A j \in at : j <= i])

PriorityOf(competitorPosition) ==
  IF competitorPosition <= 3 THEN "High"
  ELSE IF competitorPosition <= 5 THEN "Medium"
  ELSE "Low"

IsOpportunityLoose(competitorPosition, ourPosition) == competitorPosition <= 10

\* competitorPosition <= 10 && ourPosition > 10
IsOpportunity(competitorPosition, ourPosition) ==
  competitorPosition <= 10 /\ ourPosition > 10

\* the record pushed for competitor row r; ourPosition 999 is shown as "Non classé"
KeywordOpp(base, r) ==
  LET keyword == Lower(r.keyword)
      ourPosition == OurPosition(base, keyword)
  IN [keyword |-> keyword, competitorPosition |-> PositionOf(r), ourPosition |-> ourPosition,
      volume |-> r.volume, gap |-> ourPosition - PositionOf(r),
      priority |-> PriorityOf(PositionOf(r))]

findKeywordOpportunities(base, comp) ==
  LET kept == SelectSeq(comp, LAMBDA r :
                /\ Lower(r.keyword) # ""
                /\ IsOpportunity(PositionOf(r), OurPosition(base, Lower(r.keyword))))
      pushed == [i \in 1..Len(kept) |-> KeywordOpp(base, kept[i])]
  IN SortedBy(pushed, [i \in 1..Len(pushed) |->
                         <<0 - pushed[i].competitorPosition, pushed[i].volume, 0>>])

InitKw ==
  /\ mode = "kw"
  /\ RestIdle
  /\ TopIdle
  /\ SelIdle
  /\ ExtractIdle
  /\ DupIdle
  /\ RelIdle
  /\ baseRows \in BaseLists
  /\ competitorRows \in SeqsUpTo(CompetitorRows, MaxRows)
  /\ keywordOpps = <<>>
  /\ kpc = "call"

KwReturns ==
  /\ kpc = "call"
  /\ keywordOpps' = findKeywordOpportunities(baseRows, competitorRows)
  /\ kpc' = "done"
  /\ UNCHANGED <<baseRows, competitorRows>>
  /\ UNCHANGED <<extractVars, dupVars, relVars>>
  /\ UNCHANGED <<topVars, selVars>>
  /\ RestFrame

NextKw == KwReturns

SpecKw == InitKw /\ [][NextKw]_vars

\* the positions the base rows give for a keyword
BasePositions(keyword) ==
  {PositionOf(baseRows[i]) : i \in {j \in 1..Len(baseRows) : Lower(baseRows[j].keyword) = keyword}}

MaxCompetitors == 5

\* opportunities.slice(0, 5)
PerCompetitor == 5

\* .slice(0, 20)
TopCount == 20

KwRow(pos, vol) == [keyword |-> "gadgets", position |-> pos, volume |-> vol]

\* the keyword rows of a competitor: six rows of which five are in the top
\* 10, or six rows in the top 10
CKwLists ==
  {<<KwRow(4, 0), KwRow(11, 100), KwRow(4, 100), KwRow(1, 0), KwRow(9, 100), KwRow(9, 0)>>,
   <<KwRow(10, 0), KwRow(6, 100), KwRow(5, 0), KwRow(4, 100), KwRow(3, 0), KwRow(3, 100)>>}

RECURSIVE FlatMap(_)
\* relevantCompetitors.flatMap(c => c.keywordOpportunities)
FlatMap(ls) == IF ls = <<>> THEN <<>> ELSE Head(ls) \o FlatMap(Tail(ls))

\* keywordOpportunities of each competitor analysis
KeywordOpportunitiesOf(base, lists) ==
  [i \in 1..Len(lists) |-> Take(findKeywordOpportunities(base, lists[i]), PerCompetitor)]

\* const topOpportunities
TopOpportunities(all) ==
  Take(SortedBy(all, [i \in 1..Len(all) |-> <<0 - all[i].competitorPosition, all[i].volume, 0>>]),
       TopCount)

InitTop ==
  /\ mode = "top"
  /\ RestIdle
  /\ ExtractIdle
  /\ DupIdle
  /\ RelIdle
  /\ KwIdle
  /\ SelIdle
  /\ baseKwList \in {<<>>, <<BaseRow("gadgets", 11)>>}
  /\ cKwLists \in SeqsUpTo(CKwLists, MaxCompetitors)
  /\ competitorOpps = <<>>
  /\ topOpportunities = <<>>
  /\ tpc = "call"

TopReturns ==
  /\ tpc = "call"
  /\ competitorOpps' = KeywordOpportunitiesOf(baseKwList, cKwLists)
  /\ topOpportunities' = TopOpportunities(FlatMap(competitorOpps'))
  /\ tpc' = "done"
  /\ UNCHANGED <<baseKwList, cKwLists>>
  /\ UNCHANGED <<extractVars, dupVars, relVars, kwVars, selVars>>
  /\ RestFrame

NextTop == TopReturns

\* the tools that return a ranked list: the backlink pipeline and the
\* competitive analysis
InitRanked == InitPipe \/ InitTop

NextRanked == NextPipe \/ NextTop

SpecRanked == InitRanked /\ [][NextRanked]_vars

\* C18: a returned ranked list is a prefix of the sorted list of everything
\* that was ranked: it has min(limit, total) elements, no element stands after
\* one that the comparator ranks lower, every element comes from the ranked
\* collection, and everything the comparator ranks above a returned element
\* is returned too. Backlink opportunities are compared by induced strength,
\* then discovery score, then source semantic value, all descending, with
\* limit topLimit; the merged keyword opportunities by competitorPosition
\* ascending, then volume descending, with limit 20; the opportunities kept
\* for one competitor are in the same order.
C18_SortedBeforeTruncation ==
  LET Count(s, x) == Cardinality({i \in 1..Len(s) : s[i] = x})
      Prefix(out, all, n, Better(_, _)) ==
        /\ Len(out) = (IF n < Len(all) THEN n ELSE Len(all))
        /\ \A i, j \in 1..Len(out) : i < j => ~Better(out[j], out[i])
        /\ \A i \in 1..Len(out) : Count(out, out[i]) <= Count(all, out[i])
        /\ \A k \in 1..Len(all) :
             (\E i \in 1..Len(out) : Better(all[k], out[i]))
               => Count(out, all[k]) = Count(all, all[k])
      BetterOpp(a, b) ==
        \/ a.inducedStrength > b.inducedStrength
        \/ a.inducedStrength = b.inducedStrength /\ a.score > b.score
        \/ a.inducedStrength = b.inducedStrength /\ a.score = b.score /\ a.sv > b.sv
      BetterKw(a, b) ==
        \/ a.competitorPosition < b.competitorPosition
        \/ a.competitorPosition = b.competitorPosition /\ a.volume > b.volume
  IN /\ (ppc = "done" /\ ops # <<>>) => Prefix(opportunities, ops, params.topLimit, BetterOpp)
     /\ tpc = "done" =>
          /\ Prefix(topOpportunities, FlatMap(competitorOpps), TopCount, BetterKw)
          /\ \A c \in 1..Len(competitorOpps) :
               /\ Len(competitorOpps[c]) <= PerCompetitor
               /\ \A i, j \in 1..Len(competitorOpps[c]) :
                    i < j => ~BetterKw(competitorOpps[c][j], competitorOpps[c][i])

\* the pipeline kept more opportunities than topLimit and returned first one
\* that was not pushed first
C18_Witness ==
  /\ ppc = "done"
  /\ Len(ops) > params.topLimit
  /\ Len(opportunities) = params.topLimit
  /\ opportunities[1] # ops[1]

\* ------------------------------------------------------------------------
\* Stage 5 of the backlink pipeline under fiLimit (src/index.ts 1960-1971,
\* 2129-2163)
\* ------------------------------------------------------------------------
\* C19: while the backlink pipeline runs with concurrencyFi >= 1, the number
\* of /url/fi calls that have been issued and have not ended is at most
\* concurrencyFi, whatever the target and the preselected source they are for.
C19_FiCallsBounded ==
  (ppc \notin {"off", "done", "failed"} /\ params.concurrencyFi >= 1) =>
    Cardinality({u \in Units : ust[u] = "running"}) <= params.concurrencyFi

\* with one call at a time, a call is in flight while another waits for it
C19_Witness ==
  /\ ppc = "fi"
  /\ params.concurrencyFi = 1
  /\ \E u, w \in Units : ust[u] = "running" /\ ust[w] = "queued"

\* ------------------------------------------------------------------------
\* Stages 0 and 1 of the backlink pipeline when no target is given: the
\* automatic selection of the targets (src/index.ts 1986-2033)
\* ------------------------------------------------------------------------
MaxPages == 2

\* the rows of baseKw: the url may be missing
KwRankRows ==
  [url : {"p1", "p2"}, rank : {4, 5}] \cup {[url |-> "", rank |-> 1]}

\* the rows of /host/pages/internal: the url may be missing
InternalRows ==
  [url : {"p1", "p2"}, sv : {1, 2}, pv : {1}] \cup {[url |-> "", sv |-> 2, pv |-> 1]}

\* bestRankByUrl.has(url)
HasBestRank(kws, url) == \E i \in 1..Len(kws) : kws[i].url # "" /\ kws[i].url = url

\* bestRankByUrl.get(url), for a url the map holds
BestRank(kws, url) ==
  LET ranks == {kws[i].rank : i \in {j \in 1..Len(kws) : kws[j].url = url}}
  IN CHOOSE r \in ranks : \A q \in ranks : r <= q

\* Array.from(new Set(list.map(x => x.url)))
UniqueUrls(list) ==
  LET firsts == SelectSeq([i \in 1..Len(list) |-> i],
                          LAMBDA i : \A j \in 1..(i - 1) : list[j].url # list[i].url)
  IN [k \in 1..Len(firsts) |-> list[firsts[k]].url]

\* the filter on candidates: !(br !== undefined && br < 5)
NotStrong(kws, p) == ~(HasBestRank(kws, p.url) /\ BestRank(kws, p.url) < 5)

\* let targets, at the end of stage 1, when args.targets is empty
SelectTargets(kws, pages, n) ==
  LET candidates == SelectSeq(pages, LAMBDA p : p.url # "")
      kept == SelectSeq(candidates, LAMBDA p : NotStrong(kws, p))
      filtered == SortedBy(kept, [i \in 1..Len(kept) |-> <<kept[i].sv, kept[i].pv, 0>>])
      first == Take(UniqueUrls(filtered), n)
      bySv == SortedBy(candidates, [i \in 1..Len(candidates) |-> <<candidates[i].sv, 0, 0>>])
  IN IF first = <<>> /\ candidates # <<>>
       THEN Take(UniqueUrls(bySv), n)
       ELSE first

InitSel ==
  /\ mode = "sel"
  /\ RestIdle
  /\ ExtractIdle
  /\ DupIdle
  /\ RelIdle
  /\ KwIdle
  /\ TopIdle
  /\ baseKw \in SeqsUpTo(KwRankRows, MaxRows)
  /\ internalPages \in SeqsUpTo(InternalRows, MaxPages)
  /\ maxTargets \in {1, 2}
  /\ autoTargets = <<>>
  /\ spc = "call"

SelReturns ==
  /\ spc = "call"
  /\ autoTargets' = SelectTargets(baseKw, internalPages, maxTargets)
  /\ spc' = "done"
  /\ UNCHANGED <<baseKw, internalPages, maxTargets>>
  /\ UNCHANGED <<extractVars, dupVars, relVars, kwVars, topVars>>
  /\ RestFrame

NextSel == SelReturns

SpecSel == InitSel /\ [][NextSel]_vars

\* C20: when the targets are selected automatically, every selected target
\* is the url of an internal page, and no keyword row of the host gives that
\* url a rank below 5.
C20_NoStrongTarget ==
  spc = "done" =>
    \A t \in 1..Len(autoTargets) :
      /\ \E i \in 1..Len(internalPages) : internalPages[i].url = autoTargets[t]
      /\ \A k \in 1..Len(baseKw) : baseKw[k].url = autoTargets[t] => baseKw[k].rank >= 5

\* ------------------------------------------------------------------------
\* Stage 4 and stage 5 of the backlink pipeline: the size of the source
\* pool and the pairs whose call failed (src/index.ts 2079-2098, 1973-1981,
\* 2140-2162)
\* ------------------------------------------------------------------------
\* C21: the source pool never holds more than sourcesPoolCap sources.
C21_PoolWithinCap ==
  ppc \notin {"off", "failed"} => Len(sources) <= params.sourcesPoolCap

\* C22: a pair whose induced strength call failed is never among the
\* opportunities the pipeline returns, whatever fiThreshold is.
C22_FailedPairNeverReturned ==
  ppc = "done" =>
    \A i \in 1..Len(opportunities) :
      <<opportunities[i].prospectUrl, opportunities[i].targetUrl>> \notin fiFailed

\* ------------------------------------------------------------------------
\* findKeywordOpportunities: the position kept for a keyword of the base
\* host (src/index.ts 103-119)
\* ------------------------------------------------------------------------
\* C23: the position used for a keyword of the base host is the smallest
\* position among the base rows that carry it, so no opportunity is emitted
\* for a keyword that some base row ranks at position <= 10.
C23_BestBasePosition ==
  kpc = "done" =>
    \A o \in 1..Len(keywordOpps) :
      LET at == {i \in 1..Len(baseRows) : Lower(baseRows[i].keyword) = keywordOpps[o].keyword}
      IN /\ \A i \in at : PositionOf(baseRows[i]) > 10
         /\ \A i \in at : keywordOpps[o].ourPosition <= PositionOf(baseRows[i])

\* ------------------------------------------------------------------------
\* Duplication classifier: the range of an emitted bucket, the field the
\* bucket list is read from and the two verdicts (src/index.ts 1326-1402)
\* ------------------------------------------------------------------------
\* C24: every bucket kept from a raw bucket with finite endpoints and
\* start <= end has 0 <= percent_from <= percent_to <= 100.
C24_ValidRange ==
  dpc = "done" =>
    LET raw == RawBucketsOf(dupResp)
        kept == SelectSeq(raw, LAMBDA r : normPct(r.percent_from) # NaN
                                            /\ normPct(r.percent_to) # NaN)
    IN \A i \in 1..Len(annotated) :
         kept[i].percent_from <= kept[i].percent_to =>
           /\ 0 <= annotated[i].percent_from
           /\ annotated[i].percent_from <= annotated[i].percent_to
           /\ annotated[i].percent_to <= 100 * One

\* C29: when the payload holds its bucket list in the field buckets, the
\* classifier annotates one bucket per well-formed bucket of that field and
\* returns every one of them whose range end reaches the threshold.
C29_BucketsFieldClassified ==
  (dpc = "done" /\ dupResp.kind = "object" /\ dupResp.fields["buckets"].arr) =>
    LET raw == dupResp.fields["buckets"].v
        kept == SelectSeq(raw, LAMBDA r : normPct(r.percent_from) # NaN
                                            /\ normPct(r.percent_to) # NaN)
    IN /\ Len(annotated) = Len(kept)
       /\ \A i \in 1..Len(kept) :
            normPct(kept[i].percent_to) >= threshold =>
              \E j \in 1..Len(resultBuckets) :
                /\ resultBuckets[j].percent_to = normPct(kept[i].percent_to)
                /\ resultBuckets[j].pairs = kept[i].pairs

\* C30: a bucket is marked isProblematic exactly when its severity is not
\* info, whatever the threshold.
C30_VerdictsAgree ==
  dpc = "done" =>
    \A i \in 1..Len(annotated) :
      annotated[i].isProblematic <=> annotated[i].severity # "info"

\* ------------------------------------------------------------------------
\* Batch loops and the rate budget (src/index.ts 1689-1693, 2552-2564)
\* ------------------------------------------------------------------------
\* C25: a unit of a batch loop is issued while the remaining count is known
\* and <= 1 only right after the 60 second pause of the loop.
C25_PauseBeforeUnit ==
  [][(/\ bpc \in {"next", "pause"}
      /\ (bpc' = "wait" \/ idx' = idx + 1)
      /\ rateLimitRemaining # Null
      /\ rateLimitRemaining <= 1)
       => (bpc = "pause" /\ clock >= pauseAt + RetryDelay)]_vars

\* ------------------------------------------------------------------------
\* makeApiCall: calls with the same cache key that overlap in time
\* (src/index.ts 263-294)
\* ------------------------------------------------------------------------
\* C26: two cacheable calls with the same method, endpoint and parameters
\* that are outstanding at the same time have made at most one network
\* request between them.
C26_OverlapFetchedOnce ==
  \A c \in Calls, b \in Calls :
    (/\ c # b
     /\ call[c].pc # "idle" /\ call[b].pc # "idle"
     /\ call[c].useCache /\ call[c].method = "POST"
     /\ call[b].useCache /\ call[b].method = "POST"
     /\ call[c].endpoint = call[b].endpoint
     /\ call[c].params = call[b].params)
      => call[c].reqs + call[b].reqs <= 1

\* ------------------------------------------------------------------------
\* The backlink pipeline over hosts whose top pages have the same semantic
\* value (src/index.ts 2079-2171)
\* ------------------------------------------------------------------------
\* rows of a /host/pages/top/sv answer with equal semanticValue and pageValue
TiePages ==
  {[url |-> "u1", sv |-> 2, pv |-> 1], [url |-> "u2", sv |-> 2, pv |-> 1]}

\* what the await of a top pages call ends with: a thrown error, one of the
\* pages or both
TieTopAnswers ==
  {NotAsked} \cup {[ok |-> TRUE, urls |-> <<a>>] : a \in TiePages}
    \cup {[ok |-> TRUE, urls |-> l] : l \in {q \in [1..2 -> TiePages] : q[1] # q[2]}}

NextTies ==
  \/ \E ok \in BOOLEAN, kw \in {"", "kw"} : KeywordsAnswer(ok, kw)
  \/ \E ok \in BOOLEAN, sel \in SelectedLists : InternalPagesAnswer(ok, sel)
  \/ \E ok \in BOOLEAN, hs \in SUBSET Hosts : BacklinksAnswer(ok, hs)
  \/ \E ok \in BOOLEAN, rows \in SeqsUpTo(SfRows, MaxSfHosts) : SpotFinderAnswer(ok, rows)
  \/ \E ans \in TieTopAnswers : TopPagesAnswer(ans)
  \/ \E u \in Units : FiSubmit(u)
  \/ \E u \in Units, ans \in FiAnswers : FiAnswer(u, ans)
  \/ \E u \in Units : FiRelease(u)
  \/ FiResume
  \/ FiAllDone

SpecTies == InitPipe /\ [][NextTies]_vars

\* C27: the list the pipeline returns is the one it returns when the induced
\* strength calls end in the order they were issued (target by target, and
\* for a target in the order of the preselected sources): it depends on the
\* parameters and on the strength answered for each pair only, not on the
\* order in which the calls end.
C27_OrderIndependent ==
  ppc = "done" =>
    LET n == Len(ops)
        tpos(o) == CHOOSE i \in 1..Len(targets) : targets[i] = o.targetUrl
        spos(o) == CHOOSE i \in 1..Len(preselected) : preselected[i].url = o.prospectUrl
        issued == SortedBy(ops, [i \in 1..n |-> <<0 - tpos(ops[i]), 0 - spos(ops[i]), 0>>])
        key(l) == [i \in 1..Len(l) |-> <<l[i].inducedStrength, l[i].score, l[i].sv>>]
    IN opportunities = Take(SortedBy(issued, key(issued)), params.topLimit)

\* ------------------------------------------------------------------------
\* The backlink pipeline called with concurrencyFi = 0 (src/index.ts
\* 928-930, 1960-1971, 2140-2162). Every provider call answers, and every
\* continuation that is ready runs.
\* ------------------------------------------------------------------------
\* the schema puts no minimum on concurrencyFi
ZeroParams == [BaseParams EXCEPT !.concurrencyFi = 0]

\* a call with no concurrency, and a call with one induced strength call at
\* a time and no explicit target
AnyConcurrencyArgs ==
  {[params |-> ZeroParams, content |-> "brief", targets |-> <<"t1", "t2">>],
   [params |-> SerialParams, content |-> "", targets |-> <<>>]}

InitAnyConcurrency == PipeStarts(AnyConcurrencyArgs)

SpecAnyConcurrency ==
  InitAnyConcurrency /\ [][NextPipe]_vars /\ WF_vars(NextPipe)

\* C28: every invocation of the pipeline eventually returns or throws,
\* whatever concurrencyFi is.
C28_EventuallyEnds == <>(ppc \in {"done", "failed"})

====
